---- MODULE Spec2Model ----
(***************************************************************************)
(* Model of the library management store of src/lms.py: the Book and       *)
(* Member records, the Library store with its JSON backing file, the       *)
(* lending operations and the fine calculation.                            *)
(*                                                                         *)
(* A Python dict is a sequence of entries [key, val] in insertion order.   *)
(* A datetime is a number of ticks, TicksPerDay ticks to the calendar day, *)
(* counted from the day before 0001-01-01 (Python's date ordinal 0).       *)
(* A date string is a real "YYYY-MM-DD" string.                            *)
(*                                                                         *)
(* books and members are the memory of the Library instance that is        *)
(* running; peer is the memory of a second instance on the same backing    *)
(* file, if there is one.                                                  *)
(***************************************************************************)
EXTENDS Integers, Sequences, FiniteSets, TLC

VARIABLES books, members, file, now, last, peer

vars == <<books, members, file, now, last, peer>>

(***************************************************************************)
(* Bounds of the model.                                                    *)
(***************************************************************************)
TicksPerDay == 2
MaxTicks == 4
MaxPeriods == 1

BookIds == {"B1", "B2"}
MemberIds == {"M1", "M2"}
Titles == {"Python Programming", "Data Structures"}
Authors == {"John Smith"}
Names == {"Alice Brown"}
Emails == {"alice@email.com"}

StartDate == <<2028, 2, 14>>

(***************************************************************************)
(* Program constants.                                                      *)
(***************************************************************************)
fine_rate == 1
LoanDays == 14

None == "None"
\* the backing file: <<>> while it does not exist, else <<its content>>
NoFile == <<>>

(***************************************************************************)
(* Calendar arithmetic of datetime: ordinal <-> (year, month, day).        *)
(***************************************************************************)
IsLeap(y) == (y % 4 = 0) /\ ((y % 100 # 0) \/ (y % 400 = 0))

DaysInMonth(y, m) ==
    IF m = 2 THEN (IF IsLeap(y) THEN 29 ELSE 28)
    ELSE IF m \in {4, 6, 9, 11} THEN 30 ELSE 31

DaysBeforeYear(y) ==
    (y - 1) * 365 + ((y - 1) \div 4) - ((y - 1) \div 100) + ((y - 1) \div 400)

RECURSIVE DaysBeforeMonth(_, _)
DaysBeforeMonth(y, m) ==
    IF m = 1 THEN 0 ELSE DaysBeforeMonth(y, m - 1) + DaysInMonth(y, m - 1)

Ymd2Ord(y, m, d) == DaysBeforeYear(y) + DaysBeforeMonth(y, m) + d

Ord2Ymd(ord) ==
    LET n0   == ord - 1
        n400 == n0 \div 146097
        r400 == n0 % 146097
        n100 == r400 \div 36524
        r100 == r400 % 36524
        n4   == r100 \div 1461
        r4   == r100 % 1461
        n1   == r4 \div 365
        n    == r4 % 365
        year == n400 * 400 + 1 + n100 * 100 + n4 * 4 + n1
    IN  IF n1 = 4 \/ n100 = 4
        THEN <<year - 1, 12, 31>>
        ELSE LET month == CHOOSE m \in 1..12 :
                              /\ DaysBeforeMonth(year, m) <= n
                              /\ n < DaysBeforeMonth(year, m) + DaysInMonth(year, m)
             IN  <<year, month, n - DaysBeforeMonth(year, month) + 1>>

(***************************************************************************)
(* strftime("%Y-%m-%d") and strptime(s, "%Y-%m-%d").                       *)
(***************************************************************************)
RECURSIVE Pad(_, _)
Pad(s, w) == IF Len(s) >= w THEN s ELSE Pad("0" \o s, w)

Strftime(t) ==
    LET ymd == Ord2Ymd(t \div TicksPerDay)
    IN  Pad(ToString(ymd[1]), 4) \o "-" \o Pad(ToString(ymd[2]), 2)
            \o "-" \o Pad(ToString(ymd[3]), 2)

Digit(c) ==
    CASE c = "0" -> 0 [] c = "1" -> 1 [] c = "2" -> 2 [] c = "3" -> 3
      [] c = "4" -> 4 [] c = "5" -> 5 [] c = "6" -> 6 [] c = "7" -> 7
      [] c = "8" -> 8 [] c = "9" -> 9

RECURSIVE ParseInt(_)
ParseInt(s) ==
    IF Len(s) = 0 THEN 0
    ELSE ParseInt(SubSeq(s, 1, Len(s) - 1)) * 10 + Digit(SubSeq(s, Len(s), Len(s)))

Strptime(s) ==
    Ymd2Ord(ParseInt(SubSeq(s, 1, 4)), ParseInt(SubSeq(s, 6, 7)),
            ParseInt(SubSeq(s, 9, 10))) * TicksPerDay

TimedeltaDays_m(dt) == (0 - dt) \div TicksPerDay

\* timedelta.days: whole days of a difference of two datetimes, rounded down
TimedeltaDays(dt) == dt \div TicksPerDay

StartTime == Ymd2Ord(StartDate[1], StartDate[2], StartDate[3]) * TicksPerDay
Period == LoanDays * TicksPerDay

(***************************************************************************)
(* Python dicts as sequences of entries in insertion order.                *)
(***************************************************************************)
Keys(d) == {d[i].key : i \in DOMAIN d}
Has(d, k) == k \in Keys(d)
IndexOf(d, k) == CHOOSE i \in DOMAIN d : d[i].key = k
Get(d, k) == d[IndexOf(d, k)].val
Put(d, k, v) ==
    IF Has(d, k)
    THEN [d EXCEPT ![IndexOf(d, k)] = [key |-> k, val |-> v]]
    ELSE Append(d, [key |-> k, val |-> v])

ListRemove_m(l, x) == <<>>

\* list.remove(x): drops the first occurrence of x
ListRemove(l, x) ==
    LET i == CHOOSE j \in DOMAIN l : l[j] = x /\ \A h \in 1..(j - 1) : l[h] # x
    IN  SubSeq(l, 1, i - 1) \o SubSeq(l, i + 1, Len(l))

Count(l, x) == Cardinality({i \in DOMAIN l : l[i] = x})

(***************************************************************************)
(* Entities.                                                               *)
(***************************************************************************)
Book_m(book_id, title, author, is_available, borrower, due_date) ==
    [book_id |-> book_id, title |-> title, author |-> author,
     is_available |-> FALSE, borrower |-> borrower, due_date |-> due_date]

Book(book_id, title, author, is_available, borrower, due_date) ==
    [book_id |-> book_id, title |-> title, author |-> author,
     is_available |-> is_available, borrower |-> borrower, due_date |-> due_date]

Member(member_id, name, email, borrowed_books) ==
    [member_id |-> member_id, name |-> name, email |-> email,
     borrowed_books |-> IF borrowed_books # <<>> THEN borrowed_books ELSE <<>>]

(***************************************************************************)
(* Persistence: the content json.dump writes.                              *)
(***************************************************************************)
save_data(bks, mbs) ==
    [books   |-> [i \in DOMAIN bks |-> [key |-> bks[i].key, val |-> bks[i].val]],
     members |-> [i \in DOMAIN mbs |-> [key |-> mbs[i].key, val |-> mbs[i].val]]]

(***************************************************************************)
(* Fine calculation.                                                       *)
(***************************************************************************)
calculate_fine_m(bks, book_id, t) ==
    IF Has(bks, book_id)
    THEN LET book == Get(bks, book_id)
         IN  IF ~book.is_available /\ book.due_date # None /\ book.due_date # ""
             THEN LET due_date     == Strptime(book.due_date)
                      days_overdue == TimedeltaDays(t - due_date)
                  IN  days_overdue * fine_rate
             ELSE 0
    ELSE 0

calculate_fine(bks, book_id, t) ==
    IF Has(bks, book_id)
    THEN LET book == Get(bks, book_id)
         IN  IF ~book.is_available /\ book.due_date # None /\ book.due_date # ""
             THEN LET due_date     == Strptime(book.due_date)
                      days_overdue == TimedeltaDays(t - due_date)
                  IN  IF days_overdue > 0 THEN days_overdue * fine_rate ELSE 0
             ELSE 0
    ELSE 0

(***************************************************************************)
(* Loading: the content json.load reads.  A JSON object is a sequence of   *)
(* entries [key, val], a JSON array of objects is a sequence of records.   *)
(***************************************************************************)
BookFields == {"book_id", "title", "author", "is_available", "borrower", "due_date"}
MemberFields == {"member_id", "name", "email", "borrowed_books"}

\* isinstance(section, list)
IsList(section) == section # <<>> /\ "key" \notin DOMAIN section[1]

\* Book(**d): the keyword arguments must be parameters, the first three are required
BookKwargsOk(d) ==
    {"book_id", "title", "author"} \subseteq DOMAIN d /\ DOMAIN d \subseteq BookFields

BookFromDict(d) ==
    Book(d.book_id, d.title, d.author,
         IF "is_available" \in DOMAIN d THEN d.is_available ELSE TRUE,
         IF "borrower" \in DOMAIN d THEN d.borrower ELSE None,
         IF "due_date" \in DOMAIN d THEN d.due_date ELSE None)

MemberKwargsOk(d) ==
    {"member_id", "name", "email"} \subseteq DOMAIN d /\ DOMAIN d \subseteq MemberFields

MemberFromDict(d) ==
    Member(d.member_id, d.name, d.email,
           IF "borrowed_books" \in DOMAIN d THEN d.borrowed_books ELSE <<>>)

\* the exception the comprehension over a section raises, None if it raises none
BookError(section, i) ==
    IF IsList(section)
    THEN IF "book_id" \notin DOMAIN section[i] THEN "KeyError"
         ELSE IF ~BookKwargsOk(section[i]) THEN "TypeError" ELSE None
    ELSE IF ~BookKwargsOk(section[i].val) THEN "TypeError" ELSE None

MemberError(section, i) ==
    IF IsList(section)
    THEN IF "member_id" \notin DOMAIN section[i] THEN "KeyError"
         ELSE IF ~MemberKwargsOk(section[i]) THEN "TypeError" ELSE None
    ELSE IF ~MemberKwargsOk(section[i].val) THEN "TypeError" ELSE None

BooksError(section) ==
    IF \A i \in DOMAIN section : BookError(section, i) = None THEN None
    ELSE BookError(section, CHOOSE i \in DOMAIN section :
                                /\ BookError(section, i) # None
                                /\ \A h \in 1..(i - 1) : BookError(section, h) = None)

MembersError(section) ==
    IF \A i \in DOMAIN section : MemberError(section, i) = None THEN None
    ELSE MemberError(section, CHOOSE i \in DOMAIN section :
                                  /\ MemberError(section, i) # None
                                  /\ \A h \in 1..(i - 1) : MemberError(section, h) = None)

RECURSIVE LoadBooks(_)
LoadBooks(section) ==
    IF section = <<>> THEN <<>>
    ELSE LET n    == Len(section)
             rest == LoadBooks(SubSeq(section, 1, n - 1))
         IN  IF IsList(section)
             THEN Put(rest, section[n].book_id, BookFromDict(section[n]))
             ELSE Put(rest, section[n].key, BookFromDict(section[n].val))

LoadMembers_m(section) ==
    [i \in DOMAIN section |->
        IF IsList(section)
        THEN [key |-> section[i].member_id,
              val |-> Member(section[i].member_id, section[i].name, section[i].email, <<>>)]
        ELSE [key |-> section[i].key, val |-> MemberFromDict(section[i].val)]]

RECURSIVE LoadMembers(_)
LoadMembers(section) ==
    IF section = <<>> THEN <<>>
    ELSE LET n    == Len(section)
             rest == LoadMembers(SubSeq(section, 1, n - 1))
         IN  IF IsList(section)
             THEN Put(rest, section[n].member_id, MemberFromDict(section[n]))
             ELSE Put(rest, section[n].key, MemberFromDict(section[n].val))

\* load_data on backing file f by an instance holding bks and mbs: the mappings
\* it leaves, and the exception it raises.  A missing file leaves the mappings
\* alone; self.books is assigned before the members section is read.
load_data(bks, mbs, f) ==
    IF f = NoFile
    THEN [books |-> bks, members |-> mbs, exc |-> None]
    ELSE LET data         == f[1]
             books_data   == IF "books" \in DOMAIN data THEN data.books ELSE <<>>
             members_data == IF "members" \in DOMAIN data THEN data.members ELSE <<>>
         IN  IF BooksError(books_data) # None
             THEN [books |-> bks, members |-> mbs, exc |-> BooksError(books_data)]
             ELSE IF MembersError(members_data) # None
             THEN [books |-> LoadBooks(books_data), members |-> mbs,
                   exc |-> MembersError(members_data)]
             ELSE [books |-> LoadBooks(books_data),
                   members |-> LoadMembers(members_data), exc |-> None]

Library_init_m(f) ==
    LET r == load_data(<<>>, <<>>, f)
    IN  [books |-> r.books, members |-> r.members, exc |-> r.exc,
         file |-> IF r.exc = None THEN <<save_data(r.books, r.members)>> ELSE f]

\* Library(): empty mappings, then load_data; the file is only read
Library_init(f) ==
    LET r == load_data(<<>>, <<>>, f)
    IN  [books |-> r.books, members |-> r.members, exc |-> r.exc, file |-> f]

(***************************************************************************)
(* The record of the call that produced the current state.                 *)
(***************************************************************************)
Call(op, id, other, a1, a2, ok, fine, exc) ==
    [op |-> op, id |-> id, member_id |-> other, arg1 |-> a1, arg2 |-> a2,
     ok |-> ok, fine |-> fine, exc |-> exc, before |-> <<>>, results |-> <<>>]

\* a successful borrow_book remembers the book and the member's list it found;
\* a return_book of that book directly after it carries them on
Before(bks, mbs, book_id, member_id) ==
    <<Get(bks, book_id), member_id, Get(mbs, member_id).borrowed_books>>

RoundTrip(book_id) ==
    IF last.op = "borrow_book" /\ last.ok /\ last.id = book_id
    THEN last.before ELSE <<>>

(***************************************************************************)
(* State after Library() found no backing file.                            *)
(***************************************************************************)
NoPeer == [id |-> 0, books |-> <<>>, members |-> <<>>]

\* the outcome of Library() on backing file f; arg1 tells that no file was found
Constructed(r, f) ==
    Call("init", None, None, IF f = NoFile THEN "FileNotFound" ELSE None, None,
         r.exc = None, 0, r.exc)

Init ==
    LET r == Library_init(NoFile)
    IN  /\ books = r.books
        /\ members = r.members
        /\ file = r.file
        /\ now = StartTime
        /\ last = Constructed(r, NoFile)
        /\ peer = NoPeer

(***************************************************************************)
(* Operations.                                                             *)
(***************************************************************************)
add_book_m(book_id, title, author) ==
    /\ books' = Put(books, book_id, Book(book_id, title, author, TRUE, None, None))
    /\ file' = <<save_data(books', members)>>
    /\ last' = Call("add_book", book_id, None, title, author, TRUE, 0, None)
    /\ UNCHANGED <<members, now, peer>>

add_book(book_id, title, author) ==
    IF ~Has(books, book_id)
    THEN /\ books' = Put(books, book_id, Book(book_id, title, author, TRUE, None, None))
         /\ file' = <<save_data(books', members)>>
         /\ last' = Call("add_book", book_id, None, title, author, TRUE, 0, None)
         /\ UNCHANGED <<members, now, peer>>
    ELSE /\ last' = Call("add_book", book_id, None, title, author, FALSE, 0, None)
         /\ UNCHANGED <<books, members, file, now, peer>>

add_member(member_id, name, email) ==
    IF ~Has(members, member_id)
    THEN /\ members' = Put(members, member_id, Member(member_id, name, email, <<>>))
         /\ file' = <<save_data(books, members')>>
         /\ last' = Call("add_member", member_id, None, name, email, TRUE, 0, None)
         /\ UNCHANGED <<books, now, peer>>
    ELSE /\ last' = Call("add_member", member_id, None, name, email, FALSE, 0, None)
         /\ UNCHANGED <<books, members, file, now, peer>>

BorrowBooks_m(bks, book_id, member_id, t) ==
    Put(bks, book_id, [Get(bks, book_id) EXCEPT
                          !.is_available = FALSE,
                          !.borrower = member_id,
                          !.due_date = Strftime(t + LoanDays)])

BorrowBooks(bks, book_id, member_id, t) ==
    Put(bks, book_id, [Get(bks, book_id) EXCEPT
                          !.is_available = FALSE,
                          !.borrower = member_id,
                          !.due_date = Strftime(t + LoanDays * TicksPerDay)])

BorrowMembers_m(mbs, book_id, member_id) ==
    [i \in DOMAIN mbs |-> [mbs[i] EXCEPT !.val.borrowed_books = Append(@, book_id)]]

BorrowMembers(mbs, book_id, member_id) ==
    Put(mbs, member_id, [Get(mbs, member_id) EXCEPT
                            !.borrowed_books = Append(@, book_id)])

CanBorrow_m(bks, mbs, book_id, member_id) ==
    Has(bks, book_id) /\ Has(mbs, member_id)

\* the conditions under which borrow_book lends the book
CanBorrow(bks, mbs, book_id, member_id) ==
    /\ Has(bks, book_id) /\ Has(mbs, member_id)
    /\ Get(bks, book_id).is_available

borrow_book_m(book_id, member_id) ==
    IF CanBorrow(books, members, book_id, member_id)
    THEN /\ books' = BorrowBooks(books, book_id, member_id, now)
         /\ members' = BorrowMembers(members, book_id, member_id)
         /\ last' = [Call("borrow_book", book_id, member_id, None, None, TRUE, 0, None)
                      EXCEPT !.before = Before(books, members, book_id, member_id)]
         /\ UNCHANGED <<file, now, peer>>
    ELSE /\ last' = Call("borrow_book", book_id, member_id, None, None, FALSE, 0, None)
         /\ UNCHANGED <<books, members, file, now, peer>>

borrow_book(book_id, member_id) ==
    IF CanBorrow(books, members, book_id, member_id)
    THEN /\ books' = BorrowBooks(books, book_id, member_id, now)
         /\ members' = BorrowMembers(members, book_id, member_id)
         /\ file' = <<save_data(books', members')>>
         /\ last' = [Call("borrow_book", book_id, member_id, None, None, TRUE, 0, None)
                      EXCEPT !.before = Before(books, members, book_id, member_id)]
         /\ UNCHANGED <<now, peer>>
    ELSE /\ last' = Call("borrow_book", book_id, member_id, None, None, FALSE, 0, None)
         /\ UNCHANGED <<books, members, file, now, peer>>

ReturnMembers_m(mbs, bks, book_id) == mbs

ReturnMembers(mbs, bks, book_id) ==
    LET borrower == Get(bks, book_id).borrower
    IN  Put(mbs, borrower, [Get(mbs, borrower) EXCEPT
                               !.borrowed_books = ListRemove(@, book_id)])

ReturnBooks_m(bks, book_id) ==
    Put(bks, book_id, [Get(bks, book_id) EXCEPT
                          !.is_available = TRUE,
                          !.borrower = None])

ReturnBooks(bks, book_id) ==
    Put(bks, book_id, [Get(bks, book_id) EXCEPT
                          !.is_available = TRUE,
                          !.borrower = None,
                          !.due_date = None])

CanReturn_m(bks, book_id) ==
    Has(bks, book_id)

\* the conditions under which return_book takes the book back
CanReturn(bks, book_id) ==
    /\ Has(bks, book_id)
    /\ ~Get(bks, book_id).is_available

return_book_m(book_id) ==
    IF CanReturn(books, book_id)
    THEN LET fine == calculate_fine(ReturnBooks(books, book_id), book_id, now)
         IN  IF ~Has(members, Get(books, book_id).borrower)
             THEN \* self.members[book.borrower] raises
                  /\ last' = [Call("return_book", book_id, None, None, None, FALSE, 0, "KeyError")
                             EXCEPT !.before = RoundTrip(book_id)]
                  /\ UNCHANGED <<books, members, file, now, peer>>
             ELSE IF Count(Get(members, Get(books, book_id).borrower).borrowed_books, book_id) = 0
             THEN \* member.borrowed_books.remove(book_id) raises
                  /\ last' = [Call("return_book", book_id, None, None, None, FALSE, 0, "ValueError")
                             EXCEPT !.before = RoundTrip(book_id)]
                  /\ UNCHANGED <<books, members, file, now, peer>>
             ELSE /\ members' = ReturnMembers(members, books, book_id)
                  /\ books' = ReturnBooks(books, book_id)
                  /\ file' = <<save_data(books', members')>>
                  /\ last' = [Call("return_book", book_id, None, None, None, TRUE, fine, None)
                             EXCEPT !.before = RoundTrip(book_id)]
                  /\ UNCHANGED <<now, peer>>
    ELSE /\ last' = [Call("return_book", book_id, None, None, None, FALSE, 0, None)
                             EXCEPT !.before = RoundTrip(book_id)]
         /\ UNCHANGED <<books, members, file, now, peer>>

return_book(book_id) ==
    IF CanReturn(books, book_id)
    THEN LET fine == calculate_fine(books, book_id, now)
         IN  IF ~Has(members, Get(books, book_id).borrower)
             THEN \* self.members[book.borrower] raises
                  /\ last' = [Call("return_book", book_id, None, None, None, FALSE, 0, "KeyError")
                             EXCEPT !.before = RoundTrip(book_id)]
                  /\ UNCHANGED <<books, members, file, now, peer>>
             ELSE IF Count(Get(members, Get(books, book_id).borrower).borrowed_books, book_id) = 0
             THEN \* member.borrowed_books.remove(book_id) raises
                  /\ last' = [Call("return_book", book_id, None, None, None, FALSE, 0, "ValueError")
                             EXCEPT !.before = RoundTrip(book_id)]
                  /\ UNCHANGED <<books, members, file, now, peer>>
             ELSE /\ members' = ReturnMembers(members, books, book_id)
                  /\ books' = ReturnBooks(books, book_id)
                  /\ file' = <<save_data(books', members')>>
                  /\ last' = [Call("return_book", book_id, None, None, None, TRUE, fine, None)
                             EXCEPT !.before = RoundTrip(book_id)]
                  /\ UNCHANGED <<now, peer>>
    ELSE /\ last' = [Call("return_book", book_id, None, None, None, FALSE, 0, None)
                             EXCEPT !.before = RoundTrip(book_id)]
         /\ UNCHANGED <<books, members, file, now, peer>>

(***************************************************************************)
(* save_data and load_data called directly on a live instance.  Both       *)
(* return None; ok tells that the call completed.                          *)
(***************************************************************************)
Library_save_data ==
    /\ file' = <<save_data(books, members)>>
    /\ last' = Call("save_data", None, None, None, None, TRUE, 0, None)
    /\ UNCHANGED <<books, members, now, peer>>

Library_load_data ==
    LET r == load_data(books, members, file)
    IN  /\ books' = r.books
        /\ members' = r.members
        /\ last' = Call("load_data", None, None,
                        IF file = NoFile THEN "FileNotFound" ELSE None, None,
                        r.exc = None, 0, r.exc)
        /\ UNCHANGED <<file, now, peer>>

(***************************************************************************)
(* Search.                                                                 *)
(***************************************************************************)
\* str.lower() on one character
LowerChar(c) ==
    CASE c = "A" -> "a" [] c = "B" -> "b" [] c = "C" -> "c" [] c = "D" -> "d"
      [] c = "E" -> "e" [] c = "F" -> "f" [] c = "G" -> "g" [] c = "H" -> "h"
      [] c = "I" -> "i" [] c = "J" -> "j" [] c = "K" -> "k" [] c = "L" -> "l"
      [] c = "M" -> "m" [] c = "N" -> "n" [] c = "O" -> "o" [] c = "P" -> "p"
      [] c = "Q" -> "q" [] c = "R" -> "r" [] c = "S" -> "s" [] c = "T" -> "t"
      [] c = "U" -> "u" [] c = "V" -> "v" [] c = "W" -> "w" [] c = "X" -> "x"
      [] c = "Y" -> "y" [] c = "Z" -> "z" [] OTHER -> c

RECURSIVE Lower(_)
Lower(s) ==
    IF Len(s) = 0 THEN ""
    ELSE Lower(SubSeq(s, 1, Len(s) - 1)) \o LowerChar(SubSeq(s, Len(s), Len(s)))

\* q in s, for strings
StrIn(q, s) ==
    \E i \in 1..(Len(s) - Len(q) + 1) : SubSeq(s, i, i + Len(q) - 1) = q

SearchResults_m(bks, query) ==
    LET Match(e) == StrIn(query, Lower(e.val.title)) \/ StrIn(query, Lower(e.val.author))
        hits     == SelectSeq(bks, Match)
    IN  [i \in DOMAIN hits |-> hits[i].val]

\* the list search_books builds
SearchResults(bks, query) ==
    LET q        == Lower(query)
        Match(e) == StrIn(q, Lower(e.val.title)) \/ StrIn(q, Lower(e.val.author))
        hits     == SelectSeq(bks, Match)
    IN  [i \in DOMAIN hits |-> hits[i].val]

search_books(query) ==
    /\ last' = [Call("search_books", None, None, query, None, TRUE, 0, None)
                   EXCEPT !.results = SearchResults(books, query)]
    /\ UNCHANGED <<books, members, file, now, peer>>

\* the wall clock moves on between calls: by one tick, during the first
\* MaxTicks ticks of a loan period ...
Tick ==
    /\ (now - StartTime) % Period < MaxTicks
    /\ now' = now + 1
    /\ last' = Call("tick", None, None, None, None, TRUE, 0, None)
    /\ UNCHANGED <<books, members, file, peer>>

\* ... or by a whole loan period in which the store is not used
Idle ==
    /\ now + Period <= StartTime + MaxPeriods * Period + MaxTicks
    /\ now' = now + Period
    /\ last' = Call("tick", None, None, None, None, TRUE, 0, None)
    /\ UNCHANGED <<books, members, file, peer>>

\* the process ends and a new one constructs its Library from the file
Restart ==
    LET r == Library_init(file)
    IN  /\ books' = r.books
        /\ members' = r.members
        /\ file' = r.file
        /\ last' = Constructed(r, file)
        /\ UNCHANGED <<now, peer>>

Next ==
    \/ \E b \in BookIds, t \in Titles, a \in Authors : add_book(b, t, a)
    \/ \E m \in MemberIds, n \in Names, e \in Emails : add_member(m, n, e)
    \/ \E b \in BookIds, m \in MemberIds : borrow_book(b, m)
    \/ \E b \in BookIds : return_book(b)
    \/ Library_save_data
    \/ Library_load_data
    \/ Tick
    \/ Idle
    \/ Restart

Spec == Init /\ [][Next]_vars

(***************************************************************************)
(* Stores constructed from a backing file that is already there.           *)
(***************************************************************************)
OnLoan(id, m) ==
    [book_id |-> id, title |-> "Python Programming", author |-> "John Smith",
     is_available |-> FALSE, borrower |-> m, due_date |-> "2028-02-28"]

OnShelf(id) ==
    [book_id |-> id, title |-> "Data Structures", author |-> "John Smith",
     is_available |-> TRUE, borrower |-> None, due_date |-> None]

Holding(id, bs) ==
    [member_id |-> id, name |-> "Alice Brown", email |-> "alice@email.com",
     borrowed_books |-> bs]

Entry(k, v) == [key |-> k, val |-> v]

\* a file as save_data writes it
KeyedFile ==
    <<[books   |-> <<Entry("B1", OnLoan("B1", "M1"))>>,
       members |-> <<Entry("M1", Holding("M1", <<"B1">>)), Entry("M2", Holding("M2", <<>>))>>]>>

\* the same kind of store in the legacy shape
ListFile ==
    <<[books   |-> <<OnLoan("B1", "M1"), OnShelf("B2")>>,
       members |-> <<Holding("M2", <<>>), Holding("M1", <<"B1">>)>>]>>

\* legacy objects that carry the required attributes only
BareListFile ==
    <<[books   |-> <<[book_id |-> "B1", title |-> "Data Structures", author |-> "John Smith"]>>,
       members |-> <<[member_id |-> "M1", name |-> "Alice Brown", email |-> "alice@email.com"]>>]>>

\* a file without a members section
BooksOnlyFile ==
    <<[books |-> <<Entry("B1", OnShelf("B1"))>>]>>

\* a loan to a member the file does not have
DanglingFile ==
    <<[books   |-> <<Entry("B1", OnLoan("B1", "M2"))>>,
       members |-> <<Entry("M1", Holding("M1", <<>>))>>]>>

\* a loan the borrower's list does not have
UnlistedFile ==
    <<[books   |-> <<Entry("B1", OnLoan("B1", "M1"))>>,
       members |-> <<Entry("M1", Holding("M1", <<>>))>>]>>

\* a book stored under a key that is not its book_id
MiskeyedFile ==
    <<[books   |-> <<Entry("B2", OnShelf("B1"))>>,
       members |-> <<Entry("M1", Holding("M1", <<>>))>>]>>

\* a book object without a title
UntitledFile ==
    <<[books   |-> <<Entry("B1", [book_id |-> "B1", author |-> "John Smith"])>>,
       members |-> <<>>]>>

Files ==
    {NoFile, KeyedFile, ListFile, BareListFile, BooksOnlyFile, DanglingFile,
     UnlistedFile, MiskeyedFile, UntitledFile}

InitLoad ==
    \E f \in Files :
        LET r == Library_init(f)
        IN  /\ books = r.books
            /\ members = r.members
            /\ file = r.file
            /\ now = StartTime
            /\ last = Constructed(r, f)
            /\ peer = NoPeer

\* there is a store to call: the last construction did not raise
Alive == ~(last.op = "init" /\ last.exc # None)

NextLoad ==
    \/ Alive /\ \E b \in BookIds, t \in Titles, a \in Authors : add_book(b, t, a)
    \/ Alive /\ \E m \in MemberIds, n \in Names, e \in Emails : add_member(m, n, e)
    \/ Alive /\ \E b \in BookIds, m \in MemberIds : borrow_book(b, m)
    \/ Alive /\ \E b \in BookIds : return_book(b)
    \/ Alive /\ Library_save_data
    \/ Alive /\ Library_load_data
    \/ Alive /\ Restart

SpecLoad == InitLoad /\ [][NextLoad]_vars

(***************************************************************************)
(* The public operations alone, without the clock: books by two authors,   *)
(* queries in both cases.                                                  *)
(***************************************************************************)
SearchAuthors == {"John Smith", "Jane Doe"}
Queries == {"", "python", "PYTHON", "Doe", "STRUCT", "o", "n s", "xyz"}

NextCalls ==
    \/ \E b \in BookIds, t \in Titles, a \in SearchAuthors : add_book(b, t, a)
    \/ \E m \in MemberIds, n \in Names, e \in Emails : add_member(m, n, e)
    \/ \E b \in BookIds, m \in MemberIds : borrow_book(b, m)
    \/ \E b \in BookIds : return_book(b)
    \/ \E q \in Queries : search_books(q)
    \/ Library_save_data
    \/ Library_load_data

SpecCalls == Init /\ [][NextCalls]_vars

(***************************************************************************)
(* Two Library instances over one backing file.  books, members and last   *)
(* belong to the instance whose call runs next; peer holds the other       *)
(* instance's memory and the result of its latest call.  Calls run to      *)
(* completion, so the instances interleave call by call.                   *)
(***************************************************************************)
\* the file both instances load: one book on the shelf, two members
SharedFile ==
    <<[books   |-> <<Entry("B1", OnShelf("B1"))>>,
       members |-> <<Entry("M1", Holding("M1", <<>>)), Entry("M2", Holding("M2", <<>>))>>]>>

InitTwo ==
    LET r == Library_init(SharedFile)
    IN  /\ books = r.books
        /\ members = r.members
        /\ file = r.file
        /\ now = StartTime
        /\ last = Constructed(r, SharedFile)
        /\ peer = [id |-> 2, books |-> r.books, members |-> r.members,
                   last |-> Constructed(r, SharedFile)]

Switch_m ==
    LET r == load_data(books, members, file)
    IN  /\ books' = r.books
        /\ members' = r.members
        /\ last' = peer.last
        /\ peer' = [id |-> 3 - peer.id, books |-> books, members |-> members, last |-> last]
        /\ UNCHANGED <<file, now>>

\* the next call comes from the other instance
Switch ==
    /\ books' = peer.books
    /\ members' = peer.members
    /\ last' = peer.last
    /\ peer' = [id |-> 3 - peer.id, books |-> books, members |-> members, last |-> last]
    /\ UNCHANGED <<file, now>>

NextTwo ==
    \/ \E b \in BookIds, t \in Titles, a \in Authors : add_book(b, t, a)
    \/ \E m \in MemberIds, n \in Names, e \in Emails : add_member(m, n, e)
    \/ \E b \in BookIds, m \in MemberIds : borrow_book(b, m)
    \/ \E b \in BookIds : return_book(b)
    \/ Library_save_data
    \/ Library_load_data
    \/ Switch

SpecTwo == InitTwo /\ [][NextTwo]_vars

(***************************************************************************)
(* Vocabulary of the properties.                                           *)
(***************************************************************************)
BookOf(b) == Get(books, b)
MemberOf(m) == Get(members, m)
Borrowed(m) == Get(members, m).borrowed_books

\* the call returned a value (did not raise)
Returned(l) == l.exc = None

\* the calendar, day by day
NextDay(ymd) ==
    IF ymd[3] < DaysInMonth(ymd[1], ymd[2]) THEN <<ymd[1], ymd[2], ymd[3] + 1>>
    ELSE IF ymd[2] < 12 THEN <<ymd[1], ymd[2] + 1, 1>>
    ELSE <<ymd[1] + 1, 1, 1>>

RECURSIVE AddDays(_, _)
AddDays(ymd, n) == IF n = 0 THEN ymd ELSE AddDays(NextDay(ymd), n - 1)

After(a, b) ==
    \/ a[1] > b[1]
    \/ a[1] = b[1] /\ a[2] > b[2]
    \/ a[1] = b[1] /\ a[2] = b[2] /\ a[3] > b[3]

\* the number of calendar days by which day a is past day b, 0 when it is not
RECURSIVE DaysPast(_, _)
DaysPast(a, b) == IF After(a, b) THEN 1 + DaysPast(a, NextDay(b)) ELSE 0

Iso(ymd) ==
    ToString(ymd[1]) \o "-" \o (IF ymd[2] < 10 THEN "0" ELSE "") \o ToString(ymd[2])
        \o "-" \o (IF ymd[3] < 10 THEN "0" ELSE "") \o ToString(ymd[3])

TodayAt(t) == Ord2Ymd(t \div TicksPerDay)
Today == TodayAt(now)

(***************************************************************************)
(* C1: for every book, if it is not available then its borrower is an      *)
(* existing member whose borrowed_books holds the book's id exactly once    *)
(* and no other member's borrowed_books holds it; if it is available then   *)
(* no member's borrowed_books holds it.                                     *)
(***************************************************************************)
C1_LoanConsistency ==
    \A i \in DOMAIN books :
        LET b == books[i].val
        IN  IF ~b.is_available
            THEN /\ Has(members, b.borrower)
                 /\ Count(Borrowed(b.borrower), b.book_id) = 1
                 /\ \A j \in DOMAIN members :
                        members[j].key # b.borrower
                            => Count(members[j].val.borrowed_books, b.book_id) = 0
            ELSE \A j \in DOMAIN members :
                     Count(members[j].val.borrowed_books, b.book_id) = 0

\* a book has come back while its borrower still holds another one
C1_Witness ==
    /\ last.op = "return_book" /\ last.ok
    /\ \E m \in Keys(members) : Len(Borrowed(m)) = 1
    /\ \E m \in Keys(members) : Len(Borrowed(m)) = 0

(***************************************************************************)
(* C2: for every book, is_available is true exactly when borrower is None, *)
(* and exactly when due_date is None.                                      *)
(***************************************************************************)
C2_AvailableIffUnassigned ==
    \A i \in DOMAIN books :
        LET b == books[i].val
        IN  /\ b.is_available <=> (b.borrower = None)
            /\ b.is_available <=> (b.due_date = None)

\* one book is out on loan and another one has just been returned
C2_Witness ==
    /\ last.op = "return_book" /\ last.ok
    /\ \E i \in DOMAIN books : ~books[i].val.is_available
    /\ BookOf(last.id).is_available

(***************************************************************************)
(* C3: borrow_book on an existing, available book and an existing member   *)
(* returns True, leaves the book unavailable with borrower = member_id and *)
(* due_date = the calendar day 14 days after today, and appends the book   *)
(* id to the end of the member's borrowed_books.                           *)
(***************************************************************************)
C3_BorrowSucceeds ==
    [][\A b \in BookIds, m \in MemberIds :
          ( /\ last'.op = "borrow_book" /\ last'.id = b /\ last'.member_id = m
            /\ Has(books, b) /\ Has(members, m) /\ BookOf(b).is_available )
          => /\ Returned(last') /\ last'.ok
             /\ Has(books', b) /\ Has(members', m)
             /\ Get(books', b).is_available = FALSE
             /\ Get(books', b).borrower = m
             /\ Get(books', b).due_date = Iso(AddDays(Today, 14))
             /\ Get(members', m).borrowed_books = Append(Borrowed(m), b)]_vars

\* a member who already holds a book borrows a second one, due in the next month
C3_Witness ==
    /\ last.op = "borrow_book" /\ last.ok
    /\ Len(Borrowed(last.member_id)) = 2
    /\ BookOf(last.id).due_date = "2028-03-01"

(***************************************************************************)
(* C4: borrow_book with an unknown book, an unknown member or a book that  *)
(* is already borrowed returns False and leaves books, members and the     *)
(* file as they were.                                                      *)
(***************************************************************************)
C4_BorrowFailsCleanly ==
    [][\A b \in BookIds, m \in MemberIds :
          ( /\ last'.op = "borrow_book" /\ last'.id = b /\ last'.member_id = m
            /\ (~Has(books, b) \/ ~Has(members, m) \/ ~BookOf(b).is_available) )
          => /\ Returned(last') /\ ~last'.ok
             /\ UNCHANGED <<books, members, file>>]_vars

\* a member asks again for the book it already holds
C4_Witness ==
    /\ last.op = "borrow_book" /\ ~last.ok
    /\ Has(books, last.id) /\ BookOf(last.id).borrower = last.member_id

(***************************************************************************)
(* C5: a successful borrow_book(b, m) directly followed by return_book(b)  *)
(* succeeds and leaves the book available with no borrower and no due date *)
(* and with the book_id, title and author it had, and leaves the member's  *)
(* borrowed_books the sequence it was before the borrow.                   *)
(***************************************************************************)
C5_BorrowReturnRoundTrip ==
    (last.op = "return_book" /\ last.before # <<>>)
        => /\ Returned(last) /\ last.ok
           /\ BookOf(last.id).is_available = TRUE
           /\ BookOf(last.id).borrower = None
           /\ BookOf(last.id).due_date = None
           /\ BookOf(last.id).book_id = last.before[1].book_id
           /\ BookOf(last.id).title = last.before[1].title
           /\ BookOf(last.id).author = last.before[1].author
           /\ last.before[1].is_available
           /\ Borrowed(last.before[2]) = last.before[3]

\* the round trip of a member who holds another book all along
C5_Witness ==
    /\ last.op = "return_book" /\ last.before # <<>> /\ last.ok
    /\ Len(last.before[3]) = 1
    /\ Borrowed(last.before[2]) = last.before[3]

(***************************************************************************)
(* C6: return_book with an unknown book or an available book returns       *)
(* (False, 0.0) and leaves books, members and the file as they were; so    *)
(* does a second return_book directly after a successful one.              *)
(***************************************************************************)
C6_ReturnFailsCleanly ==
    [][\A b \in BookIds :
          /\ ( /\ last'.op = "return_book" /\ last'.id = b
               /\ (~Has(books, b) \/ BookOf(b).is_available) )
             => /\ Returned(last') /\ ~last'.ok /\ last'.fine = 0
                /\ UNCHANGED <<books, members, file>>
          /\ ( /\ last.op = "return_book" /\ last.id = b /\ last.ok
               /\ last'.op = "return_book" /\ last'.id = b )
             => /\ Returned(last') /\ ~last'.ok /\ last'.fine = 0
                /\ UNCHANGED <<books, members, file>>]_vars

\* return_book has failed on a book that is in the catalog and on the shelf
C6_Witness ==
    /\ last.op = "return_book" /\ ~last.ok /\ last.fine = 0
    /\ Has(books, last.id) /\ BookOf(last.id).is_available
    /\ \E i \in DOMAIN books : ~books[i].val.is_available

(***************************************************************************)
(* C7: the fine of a borrowed book with a due date is days_overdue *       *)
(* fine_rate, days_overdue being the number of calendar days by which      *)
(* today is past the due date, and 0 when today is not past it; it is 0    *)
(* for an unknown or available book or one without due date; it is never   *)
(* negative; a successful return_book reports this fine; 16 days after the *)
(* borrow the fine is 2 and on the day of the borrow it is 0.              *)
(***************************************************************************)
DueYmdIn(bks, b) ==
    <<ParseInt(SubSeq(Get(bks, b).due_date, 1, 4)),
      ParseInt(SubSeq(Get(bks, b).due_date, 6, 7)),
      ParseInt(SubSeq(Get(bks, b).due_date, 9, 10))>>
DueYmd(b) == DueYmdIn(books, b)

HasLoanIn(bks, b) ==
    Has(bks, b) /\ ~Get(bks, b).is_available /\ Get(bks, b).due_date # None
HasLoan(b) == HasLoanIn(books, b)

ExpectedFine(b) ==
    IF HasLoan(b) THEN DaysPast(Today, DueYmd(b)) * fine_rate ELSE 0

C7_FineState ==
    \A b \in BookIds :
        /\ calculate_fine(books, b, now) = ExpectedFine(b)
        /\ calculate_fine(books, b, now) >= 0
        /\ (HasLoan(b) /\ ~After(Today, DueYmd(b))) => calculate_fine(books, b, now) = 0
        /\ (HasLoan(b) /\ Today = AddDays(DueYmd(b), 2)) => calculate_fine(books, b, now) = 2
        /\ (HasLoan(b) /\ AddDays(Today, 14) = DueYmd(b)) => calculate_fine(books, b, now) = 0

C7_FineStep ==
    \A b \in BookIds :
        (last'.op = "return_book" /\ last'.id = b)
            => IF last'.ok THEN last'.fine = ExpectedFine(b) ELSE last'.fine = 0

\* C7: calculate_fine is the clamped day count times fine_rate in every
\* state, and every return_book reports it
C7_Fine == []C7_FineState /\ [][C7_FineStep]_vars

\* a book is returned two days late: 16 days after it was borrowed
C7_Witness ==
    /\ last.op = "return_book" /\ last.ok /\ last.fine = 2

(***************************************************************************)
(* C8: while a book stays borrowed and the clock moves forward, its fine   *)
(* never decreases from one moment to the next, and it is 0 at every time  *)
(* on or before the due date.                                              *)
(***************************************************************************)
C8_ZeroUntilDue ==
    \A b \in BookIds :
        (HasLoan(b) /\ ~After(Today, DueYmd(b))) => calculate_fine(books, b, now) = 0

C8_Step ==
    \A b \in BookIds :
        (HasLoanIn(books, b) /\ HasLoanIn(books', b) /\ now' >= now)
            => \/ (now' = now /\ Get(books', b) = Get(books, b))
               \/ calculate_fine(books', b, now') >= calculate_fine(books, b, now)

\* C8: the fine of a book on loan is 0 until its due date has passed and
\* never decreases on a step
C8_FineMonotonic == []C8_ZeroUntilDue /\ [][C8_Step]_vars

\* the clock has moved and the fine of a book still on loan has grown to 2
C8_Witness ==
    /\ last.op = "tick"
    /\ \E b \in BookIds : HasLoan(b) /\ calculate_fine(books, b, now) = 2

(***************************************************************************)
(* C9: add_book (add_member) with an id that is already present returns    *)
(* False, saves nothing and changes no record; books holds one entry per   *)
(* id, with the title and author of the first add and its loan status; a   *)
(* duplicate add_member does not reset borrowed_books.                     *)
(***************************************************************************)
OneEntryPerKey(d) == \A i, j \in DOMAIN d : d[i].key = d[j].key => i = j

C9_DuplicateStep ==
    /\ (last'.op = "add_book" /\ Has(books, last'.id))
         => /\ Returned(last') /\ ~last'.ok
            /\ UNCHANGED <<books, members, file>>
    /\ (last'.op = "add_member" /\ Has(members, last'.id))
         => /\ Returned(last') /\ ~last'.ok
            /\ UNCHANGED <<books, members, file>>
    /\ \A b \in Keys(books) :
         /\ Has(books', b)
         /\ Get(books', b).title = BookOf(b).title
         /\ Get(books', b).author = BookOf(b).author

\* C9: ids stay unique and an add with a present id fails and changes nothing
C9_DuplicateAdd ==
    [](OneEntryPerKey(books) /\ OneEntryPerKey(members)) /\ [][C9_DuplicateStep]_vars

\* a borrowed book is added again under another title
C9_Witness ==
    /\ last.op = "add_book" /\ ~last.ok
    /\ BookOf(last.id).title # last.arg1
    /\ ~BookOf(last.id).is_available

(***************************************************************************)
(* C10: after every operation the file is in step with memory: a           *)
(* successful add_book, add_member, borrow_book or return_book leaves a    *)
(* file that encodes exactly the books and members mappings, a failed one  *)
(* writes no file and changes no memory, and before the first successful   *)
(* mutation there is nothing to store.                                     *)
(***************************************************************************)
Encodes(content, bks, mbs) ==
    /\ Len(content.books) = Len(bks)
    /\ \A i \in DOMAIN bks :
          content.books[i].key = bks[i].key /\ content.books[i].val = bks[i].val
    /\ Len(content.members) = Len(mbs)
    /\ \A i \in DOMAIN mbs :
          content.members[i].key = mbs[i].key /\ content.members[i].val = mbs[i].val

FileInStep ==
    IF file = NoFile
    THEN books = <<>> /\ members = <<>>
    ELSE Encodes(file[1], books, members)

C10_Step ==
    /\ (last'.op \in {"add_book", "add_member", "borrow_book", "return_book"} /\ last'.ok)
         => (file' # NoFile /\ Encodes(file'[1], books', members'))
    /\ ~last'.ok => UNCHANGED <<books, members, file>>

\* C10: the file is in step with memory in every state and after every call
C10_FileInStep == []FileInStep /\ [][C10_Step]_vars

\* the file holds a loan that memory holds
C10_Witness ==
    /\ last.op = "borrow_book" /\ last.ok
    /\ file # NoFile
    /\ \E i \in DOMAIN file[1].books : file[1].books[i].val.borrower = last.member_id
    /\ \E i \in DOMAIN file[1].members : Len(file[1].members[i].val.borrowed_books) = 2

(***************************************************************************)
(* C11: for every store state reachable through the operations, loading    *)
(* its keyed encoding and loading a list encoding of the same entity       *)
(* objects, in any order, both give books and members mappings with the    *)
(* same keys and the same attribute values, borrowed_books in the same     *)
(* order.                                                                  *)
(***************************************************************************)
SameMapping(d1, d2) ==
    /\ Len(d1) = Len(d2)
    /\ Keys(d1) = Keys(d2)
    /\ \A k \in Keys(d1) : Get(d1, k) = Get(d2, k)

KeyedShape(d) == [i \in DOMAIN d |-> [key |-> d[i].key, val |-> d[i].val]]
ListShapes(d) == {[i \in DOMAIN d |-> d[p[i]].val] : p \in Permutations(DOMAIN d)}
Shapes(d) == {KeyedShape(d)} \cup ListShapes(d)

LoadsBack(content, bks, mbs) ==
    LET r == load_data(<<>>, <<>>, <<content>>)
    IN  /\ r.exc = None
        /\ SameMapping(r.books, bks)
        /\ SameMapping(r.members, mbs)

C11_AllShapes ==
    \A sb \in Shapes(books), sm \in Shapes(members) :
        LoadsBack([books |-> sb, members |-> sm], books, members)

C11_Step ==
    last'.op \in {"init", "load_data"}
        => /\ Returned(last')
           /\ SameMapping(books', books)
           /\ SameMapping(members', members)

\* C11: a restart or a load_data call loads the saved file back into the same
\* mappings, and so would loading any keyed or list encoding of the store
C11_SaveLoadRoundTrip == [](last.op = "init" => C11_AllShapes) /\ [][C11_Step]_vars

\* a store with a loan and a member holding two books has been loaded back
C11_Witness ==
    /\ last.op = "init" /\ last.ok
    /\ \E m \in Keys(members) : Len(Borrowed(m)) = 2
    /\ Len(members) = 2
    /\ file # NoFile

(***************************************************************************)
(* C14: constructing a store when the backing file does not exist succeeds *)
(* with empty books and members and does not create the file; construction *)
(* never writes the file, which comes to exist only by a successful        *)
(* mutation.                                                               *)
(***************************************************************************)
Mutations == {"add_book", "add_member", "borrow_book", "return_book"}

C14_State ==
    (last.op = "init" /\ last.arg1 = "FileNotFound")
        => /\ Returned(last) /\ last.ok
           /\ books = <<>> /\ members = <<>>
           /\ file = NoFile

C14_Step ==
    /\ last'.op = "init" => file' = file
    /\ (file = NoFile /\ file' # NoFile) => (last'.op \in Mutations /\ last'.ok)
    /\ (file = NoFile /\ last'.op \in Mutations /\ last'.ok) => file' # NoFile

\* C14: a Library constructed without a file is empty and leaves no file,
\* and only a successful mutation creates the file
C14_MissingStore == []C14_State /\ [][C14_Step]_vars

\* the file comes to exist by a successful mutation or by a save_data call
C14_StepAmended ==
    /\ last'.op = "init" => file' = file
    /\ (file = NoFile /\ file' # NoFile)
           => \/ last'.op \in Mutations /\ last'.ok
              \/ last'.op = "save_data"
    /\ (file = NoFile /\ last'.op \in Mutations /\ last'.ok) => file' # NoFile

\* C14 (amended): a Library constructed without a file is empty and leaves no
\* file; the file is created by the first successful mutation or by a direct
\* call of save_data, whichever comes first
C14_MissingStoreAmended == []C14_State /\ [][C14_StepAmended]_vars

\* the store was constructed without a file and nothing has been saved yet
C14_Witness ==
    /\ last.op = "init" /\ last.arg1 = "FileNotFound" /\ last.ok
    /\ file = NoFile /\ books = <<>> /\ members = <<>>

(***************************************************************************)
(* C12: constructing a store from a file in which a book is not available  *)
(* and names a borrower that is not among the file's members fails: no     *)
(* constructed store holds a book whose borrower is not an existing member.*)
(***************************************************************************)
C12_CorruptStoreIsFatal ==
    (last.op = "init" /\ Returned(last))
        => \A i \in DOMAIN books :
               ~books[i].val.is_available => Has(members, books[i].val.borrower)

(***************************************************************************)
(* C13: after construction from a missing file or from any file that load  *)
(* accepted, every call of add_book, add_member, borrow_book and           *)
(* return_book returns its result and never aborts with an error.          *)
(***************************************************************************)
C13_CallsReturn ==
    last.op \in Mutations => Returned(last)

(***************************************************************************)
(* C20: after construction from any file that load accepts and any         *)
(* operations, every key of books maps to a Book with that book_id and     *)
(* every key of members maps to a Member with that member_id.              *)
(***************************************************************************)
C20_KeysAreIds ==
    Alive =>
        /\ \A i \in DOMAIN books : books[i].val.book_id = books[i].key
        /\ \A i \in DOMAIN members : members[i].val.member_id = members[i].key

(***************************************************************************)
(* C15: search_books(query) returns exactly the books whose title or       *)
(* author contains query as a substring, letters compared without regard   *)
(* to case, each once, in the insertion order of books; the empty query    *)
(* returns every book; the call changes no book, no member and no file.    *)
(***************************************************************************)
CasePairs ==
    {<<"A", "a">>, <<"B", "b">>, <<"C", "c">>, <<"D", "d">>, <<"E", "e">>,
     <<"F", "f">>, <<"G", "g">>, <<"H", "h">>, <<"I", "i">>, <<"J", "j">>,
     <<"K", "k">>, <<"L", "l">>, <<"M", "m">>, <<"N", "n">>, <<"O", "o">>,
     <<"P", "p">>, <<"Q", "q">>, <<"R", "r">>, <<"S", "s">>, <<"T", "t">>,
     <<"U", "u">>, <<"V", "v">>, <<"W", "w">>, <<"X", "x">>, <<"Y", "y">>,
     <<"Z", "z">>}

SameLetter(a, b) == a = b \/ <<a, b>> \in CasePairs \/ <<b, a>> \in CasePairs

ContainsNoCase(s, q) ==
    \E i \in 0..(Len(s) - Len(q)) :
        \A k \in 1..Len(q) : SameLetter(SubSeq(s, i + k, i + k), SubSeq(q, k, k))

Wanted(book, q) == ContainsNoCase(book.title, q) \/ ContainsNoCase(book.author, q)

C15_State ==
    last.op = "search_books"
        => LET res == last.results
               q   == last.arg1
           IN  /\ Returned(last)
               /\ \A i \in DOMAIN books :
                      Wanted(books[i].val, q) <=> (\E j \in DOMAIN res : res[j] = books[i].val)
               /\ \A j \in DOMAIN res : \E i \in DOMAIN books : res[j] = books[i].val
               /\ \A j1, j2 \in DOMAIN res :
                      j1 < j2 => \E i1, i2 \in DOMAIN books :
                                     /\ i1 < i2
                                     /\ res[j1] = books[i1].val
                                     /\ res[j2] = books[i2].val
               /\ q = "" => Len(res) = Len(books)

C15_Step ==
    last'.op = "search_books" => UNCHANGED <<books, members, file>>

\* C15: search_books returns the matching books in catalog order and changes nothing
C15_Search == []C15_State /\ [][C15_Step]_vars

\* an upper-case query has found the second of two books by its title
C15_Witness ==
    /\ last.op = "search_books" /\ last.arg1 = "PYTHON"
    /\ Len(books) = 2 /\ Len(last.results) = 1
    /\ last.results[1] = books[2].val
    /\ ~books[2].val.is_available

(***************************************************************************)
(* C16: a successful return_book reports the fine calculate_fine gave for  *)
(* the book just before the call, while the due date was still set, and    *)
(* just after the call calculate_fine for the book is 0.                   *)
(***************************************************************************)
C16_Step ==
    \A b \in BookIds :
        (last'.op = "return_book" /\ last'.id = b /\ last'.ok)
            => /\ last'.fine = calculate_fine(books, b, now)
               /\ calculate_fine(books', b, now') = 0

\* C16: the reported fine is the fine before the call, and the fine after the call is 0
C16_FineBeforeClearing == [][C16_Step]_vars

\* a book was returned one day late: the fine of 1 was reported and the loan is cleared
C16_Witness ==
    /\ last.op = "return_book" /\ last.ok /\ last.fine = 1
    /\ BookOf(last.id).due_date = None
    /\ calculate_fine(books, last.id, now) = 0

(***************************************************************************)
(* C17: each book is Available or Borrowed and nothing else.  A book is    *)
(* Available when add_book creates it; it goes from Available to Borrowed  *)
(* only in a successful borrow_book naming it and from Borrowed to         *)
(* Available only in a successful return_book naming it.  No state is      *)
(* terminal: every borrowed book can be returned and every available book  *)
(* can be borrowed by any existing member.                                 *)
(***************************************************************************)
Succeeded(l, op, b) == l.op = op /\ l.id = b /\ l.ok /\ Returned(l)

C17_NoTerminal ==
    \A b \in Keys(books) :
        /\ BookOf(b).is_available \in BOOLEAN
        /\ IF BookOf(b).is_available
           THEN \A m \in Keys(members) :
                    ENABLED (borrow_book(b, m) /\ Succeeded(last', "borrow_book", b)
                                               /\ ~Get(books', b).is_available)
           ELSE ENABLED (return_book(b) /\ Succeeded(last', "return_book", b)
                                        /\ Get(books', b).is_available)

C17_Step ==
    \/ books' = books
    \/ \A b \in BookIds :
           /\ (~Has(books, b) /\ Has(books', b))
                  => Succeeded(last', "add_book", b) /\ Get(books', b).is_available
           /\ (Has(books, b) /\ Has(books', b))
                  => /\ (Get(books, b).is_available /\ ~Get(books', b).is_available)
                            => Succeeded(last', "borrow_book", b)
                     /\ (~Get(books, b).is_available /\ Get(books', b).is_available)
                            => Succeeded(last', "return_book", b)

\* C17: the per-book machine Available <-> Borrowed, entered at Available, with no terminal state
C17_TwoStateMachine == []C17_NoTerminal /\ [][C17_Step]_vars

\* one book has just been lent to the second member while the other book is on the shelf
C17_Witness ==
    /\ Keys(books) = BookIds /\ Keys(members) = MemberIds
    /\ Succeeded(last, "borrow_book", "B2")
    /\ ~BookOf("B2").is_available /\ BookOf("B2").borrower = "M2"
    /\ BookOf("B1").is_available

(***************************************************************************)
(* C18: no operation removes or renames an entity or touches a bystander.  *)
(* The sets of book ids and member ids only grow; book_id, title, author   *)
(* of a book and member_id, name, email of a member never change; a        *)
(* borrow_book or return_book on book b changes only the loan fields of b  *)
(* and the borrowed_books of the one member involved.                      *)
(***************************************************************************)
SameBookIdentity(x, y) ==
    x.book_id = y.book_id /\ x.title = y.title /\ x.author = y.author

SameMemberIdentity(x, y) ==
    x.member_id = y.member_id /\ x.name = y.name /\ x.email = y.email

\* the member a borrow_book or return_book call on the store bks involves
Involved(l, bks) ==
    IF l.op = "borrow_book" THEN l.member_id
    ELSE IF Has(bks, l.id) THEN Get(bks, l.id).borrower ELSE None

C18_Step ==
    \/ books' = books /\ members' = members
    \/ /\ Keys(books) \subseteq Keys(books') /\ Keys(members) \subseteq Keys(members')
       /\ \A b \in Keys(books) : SameBookIdentity(Get(books', b), Get(books, b))
       /\ \A m \in Keys(members) : SameMemberIdentity(Get(members', m), Get(members, m))
       /\ last'.op \in {"borrow_book", "return_book"}
              => /\ Keys(books') = Keys(books) /\ Keys(members') = Keys(members)
                 /\ \A b \in Keys(books) \ {last'.id} : Get(books', b) = Get(books, b)
                 /\ \A m \in Keys(members) \ {Involved(last', books)} :
                        Get(members', m) = Get(members, m)
       /\ last'.op = "add_book"
              => /\ members' = members
                 /\ \A b \in Keys(books) : Get(books', b) = Get(books, b)
       /\ last'.op = "add_member"
              => /\ books' = books
                 /\ \A m \in Keys(members) : Get(members', m) = Get(members, m)

\* C18: ids only grow, identity fields are fixed, borrow and return touch one book and one member
C18_Frame == [][C18_Step]_vars

\* M1 has just borrowed B1 while M2 still holds B2 and nothing else
C18_Witness ==
    /\ Keys(books) = BookIds /\ Keys(members) = MemberIds
    /\ last.op = "borrow_book" /\ last.ok /\ last.id = "B1" /\ last.member_id = "M1"
    /\ Borrowed("M1") = <<"B1">>
    /\ Borrowed("M2") = <<"B2">> /\ BookOf("B2").borrower = "M2"

(***************************************************************************)
(* C19: two instances that loaded the same file and then each mutate,      *)
(* interleaved, can lose an update: the file after both have saved can     *)
(* lack the effect of a mutation that was reported successful.  Each       *)
(* instance decides and saves from its own memory alone: a call never      *)
(* changes the other instance's memory, only a load_data call reads the    *)
(* file again, and a successful mutation or a save_data call replaces the  *)
(* whole file by the caller's memory.                                      *)
(***************************************************************************)
Saves(l) == (l.op \in Mutations /\ l.ok) \/ l.op = "save_data"

C19_Step ==
    IF peer'.id # peer.id
    THEN \* the caller changes: both memories and the file stay as they were
         /\ file' = file
         /\ books' = peer.books /\ members' = peer.members
         /\ peer'.books = books /\ peer'.members = members
    ELSE \* a call of the current instance
         /\ peer' = peer
         /\ Saves(last') => file' = <<save_data(books', members')>>
         /\ ~Saves(last') => file' = file
         /\ last'.op = "load_data"
                => LET r == load_data(books, members, file)
                   IN  books' = r.books /\ members' = r.members

\* C19: the last writer wins, whatever the other instance had saved
C19_LostUpdate == [][C19_Step]_vars

\* both instances have lent B1, to different members, each reporting success;
\* the file records the second loan only
C19_Witness ==
    /\ last.op = "borrow_book" /\ last.ok /\ last.id = "B1" /\ last.member_id = "M2"
    /\ peer.last.op = "borrow_book" /\ peer.last.ok
    /\ peer.last.id = "B1" /\ peer.last.member_id = "M1"
    /\ BookOf("B1").borrower = "M2"
    /\ Get(peer.books, "B1").borrower = "M1" /\ Get(peer.members, "M1").borrowed_books = <<"B1">>
    /\ file # NoFile
    /\ Get(file[1].books, "B1").borrower = "M2"
    /\ Get(file[1].members, "M1").borrowed_books = <<>>

====
